---- MODULE Spec2Model ----
(***************************************************************************)
(* A model of the CDragon aggregate of blitzadex (src/src/cdragon.rs):     *)
(* the freshness check status(), the disk cache save()/load_obj(), the     *)
(* refresh sequence update() and the fan-out/fan-in all_champions().       *)
(*                                                                         *)
(* The remote catalog and the disk are the environment.  The remote is     *)
(* three endpoints (plugin list, champion summary, one record per id),     *)
(* each of which either answers with a body or fails; a disk write ends    *)
(* in one of the ways fs::write and create_dir_all can end.                *)
(***************************************************************************)
EXTENDS Integers, Sequences, FiniteSets, TLC

\* ------------------------------------------------------------------ bounds
MaxTime == 1      \* timestamps are 0..MaxTime seconds after the epoch
MaxId == 2        \* champion ids are 1..MaxId
MaxSummary == 3   \* the summary array has at most MaxSummary elements

Times == 0..MaxTime
Ids == 1..MaxId
Titles == {"a", "b"}

\* ------------------------------------------------------- plugin names
\* The names the remote listing uses (kebab-case); the last one is a name
\* the PluginName enum does not list.
WireNames == {"rcp-be-lol-game-data", "rcp-fe-unlisted"}

\* The PluginName variants a caller can ask status() about.
PluginNames == {"RcpBeLolGameData", "RcpFeAudio", "PluginManifest"}

\* Deserialize of PluginName: rename_all = "kebab-case", #[serde(other)]
\* sends every unlisted name to PluginManifest.
ParseName(w) ==
    CASE w = "rcp-be-lol-game-data" -> "RcpBeLolGameData"
      [] w = "rcp-fe-audio" -> "RcpFeAudio"
      [] OTHER -> "PluginManifest"

\* Serialize of PluginName.
FormatName(n) ==
    CASE n = "RcpBeLolGameData" -> "rcp-be-lol-game-data"
      [] n = "RcpFeAudio" -> "rcp-fe-audio"
      [] OTHER -> "plugin-manifest"

\* ---------------------------------------------------------- mtime_format
\* A DateTime<Utc> is a number of seconds; its text is "%a, %d %b %Y
\* %H:%M:%S %Z": a weekday, the date and time to the second, a zone name.
WeekdayOf(t) == ((t \div 86400) + 4) % 7

\* The timestamp written without its seconds ("%H:%M").
FormatTimeToTheMinute(t) == [wd |-> WeekdayOf(t), secs |-> (t \div 60) * 60, zone |-> "UTC"]

\* mtime_format::serialize: chrono prints %Z of a DateTime<Utc> as "UTC".
FormatTime(t) == [wd |-> WeekdayOf(t), secs |-> t, zone |-> "UTC"]

\* mtime_format::deserialize: NaiveDateTime::parse_from_str checks that the
\* weekday agrees with the date and skips the zone name without reading it.
ParseTimeOk(s) == s.wd = WeekdayOf(s.secs)

ParseTime(s) == s.secs

\* The texts the remote listing can carry: a correct stamp in zone GMT for
\* every time, and one stamp whose weekday contradicts its date.
WireStamps ==
    {[wd |-> WeekdayOf(t), secs |-> t, zone |-> "GMT"] : t \in Times}
      \cup {[wd |-> (WeekdayOf(0) + 1) % 7, secs |-> 0, zone |-> "GMT"]}

WirePlugins == [name : WireNames, mtime : WireStamps]

\* A directory listing: every name at most once, in any order.
RECURSIVE ListingsOver(_)
ListingsOver(names) ==
    {<< >>} \cup
    UNION {{<<p>> \o rest : rest \in ListingsOver(names \ {p.name})} :
              p \in {q \in WirePlugins : q.name \in names}}

WireListings == ListingsOver(WireNames)

\* ------------------------------------------------------------- results
Err == [ok |-> FALSE, v |-> << >>]

Ok(x) == [ok |-> TRUE, v |-> x]

None == [some |-> FALSE, v |-> 0]

Some(x) == [some |-> TRUE, v |-> x]

\* What an endpoint answers: a body, or a failure of the request.
Down == [ok |-> FALSE, body |-> << >>]

Body(b) == [ok |-> TRUE, body |-> b]

\* ------------------------------------------------------------ the files
Absent == [kind |-> "absent", body |-> << >>]

Partial == [kind |-> "partial", body |-> << >>]

Json(b) == [kind |-> "json", body |-> b]

\* older: champion_details.json exists and was last written before
\* plugins.json was (the order of the modification times of the two files).
NoFiles == [dir |-> FALSE, plugins |-> Absent, champions |-> Absent, older |-> FALSE]

\* How one call of save() ends on the disk.
SaveModes == {"ok", "mkdir_fails", "open_fails", "write_fails"}

\* save() that writes a file only when there is none yet.
SaveKeepsExisting(fs, f, body, mode) ==
    IF ~fs.dir /\ mode = "mkdir_fails" THEN [ok |-> FALSE, fs |-> fs]
    ELSE LET d == [fs EXCEPT !.dir = TRUE]
             w == [d EXCEPT !.older = (f = "plugins" /\ d.champions.kind # "absent")]
         IN CASE mode = "open_fails" -> [ok |-> FALSE, fs |-> d]
              [] mode = "write_fails" -> [ok |-> FALSE, fs |-> [w EXCEPT ![f] = Partial]]
              [] fs[f].kind # "absent" -> [ok |-> TRUE, fs |-> d]
              [] OTHER -> [ok |-> TRUE, fs |-> [w EXCEPT ![f] = Json(body)]]

\* save(): create the cache directory when it is missing, then fs::write,
\* which truncates the file before it writes.  f is "plugins" or "champions".
Save(fs, f, body, mode) ==
    IF ~fs.dir /\ mode = "mkdir_fails" THEN [ok |-> FALSE, fs |-> fs]
    ELSE LET d == [fs EXCEPT !.dir = TRUE]
             w == [d EXCEPT !.older = (f = "plugins" /\ d.champions.kind # "absent")]
         IN CASE mode = "open_fails" -> [ok |-> FALSE, fs |-> d]
              [] mode = "write_fails" -> [ok |-> FALSE, fs |-> [w EXCEPT ![f] = Partial]]
              [] OTHER -> [ok |-> TRUE, fs |-> [w EXCEPT ![f] = Json(body)]]

\* serde_json::to_string_pretty of a Vec<Plugin>.
SerializePlugins(ps) ==
    [i \in DOMAIN ps |-> [name |-> FormatName(ps[i].name), mtime |-> FormatTime(ps[i].mtime)]]

\* serde_json::from_str / from_reader into a Vec<Plugin>.
DecodePlugins(body) ==
    IF \E i \in DOMAIN body : ~ParseTimeOk(body[i].mtime) THEN Err
    ELSE Ok([i \in DOMAIN body |->
                [name |-> ParseName(body[i].name), mtime |-> ParseTime(body[i].mtime)]])

\* load_obj that reads what it can of a truncated document: no plugin.
LoadPluginsLenient(fs) ==
    CASE fs.plugins.kind = "json" -> DecodePlugins(fs.plugins.body)
      [] fs.plugins.kind = "partial" -> Ok(<< >>)
      [] OTHER -> Err

\* load_obj::<Vec<Plugin>>("plugins.json")
LoadPlugins(fs) ==
    IF fs.plugins.kind = "json" THEN DecodePlugins(fs.plugins.body) ELSE Err

\* iter().find(|plug| plug.name == *name): the first plugin of that name.
FindPlugin(ps, name) ==
    IF \E i \in DOMAIN ps : ps[i].name = name
    THEN LET i == CHOOSE j \in DOMAIN ps :
                     /\ ps[j].name = name
                     /\ \A k \in DOMAIN ps : ps[k].name = name => j <= k
         IN Some(ps[i].mtime)
    ELSE None

\* Plugin::updated_since
UpdatedSince(mtime, date) == mtime > date

\* plugins(): one request to the listing, decoded.
FetchPlugins(resp) == IF resp.ok THEN DecodePlugins(resp.body) ELSE Err

\* cached_plugin_updated_date that takes a file it cannot decode for a cache
\* of the oldest date, so that the remote is asked.
CachedPluginUpdatedDateOldest(fs, name) ==
    LET plugs == LoadPlugins(fs)
    IN IF plugs.ok THEN FindPlugin(plugs.v, name)
       ELSE IF fs.plugins.kind = "absent" THEN None ELSE Some(0)

\* cached_plugin_updated_date
CachedPluginUpdatedDate(fs, name) ==
    LET plugs == LoadPlugins(fs)
    IN IF plugs.ok THEN FindPlugin(plugs.v, name) ELSE None

\* network_plugin_updated_date with a default date for a plugin the listing
\* lacks (unwrap_or_default for ok_or).
NetworkPluginUpdatedDateOrDefault(resp, name) ==
    LET plugs == FetchPlugins(resp)
    IN IF ~plugs.ok THEN Err
       ELSE LET found == FindPlugin(plugs.v, name)
            IN IF found.some THEN Ok(found.v) ELSE Ok(0)

\* network_plugin_updated_date
NetworkPluginUpdatedDate(resp, name) ==
    LET plugs == FetchPlugins(resp)
    IN IF ~plugs.ok THEN Err
       ELSE LET found == FindPlugin(plugs.v, name)
            IN IF found.some THEN Ok(found.v) ELSE Err

\* status() that takes equal timestamps for out of date (<= for <).
StatusOfEqualOutOfDate(fs, resp, name) ==
    LET cached == CachedPluginUpdatedDate(fs, name)
    IN IF ~cached.some THEN "OutOfDate"
       ELSE LET fetched == NetworkPluginUpdatedDate(resp, name)
            IN IF ~fetched.ok THEN "Err"
               ELSE IF cached.v <= fetched.v THEN "OutOfDate" ELSE "UpToDate"

\* status() with a cold start reported as UpToDate.
StatusOfColdUpToDate(fs, resp, name) ==
    LET cached == CachedPluginUpdatedDate(fs, name)
    IN IF ~cached.some THEN "UpToDate"
       ELSE LET fetched == NetworkPluginUpdatedDate(resp, name)
            IN IF ~fetched.ok THEN "Err"
               ELSE IF cached.v < fetched.v THEN "OutOfDate" ELSE "UpToDate"

\* status(): the verdict, or "Err".
StatusOf(fs, resp, name) ==
    LET cached == CachedPluginUpdatedDate(fs, name)
    IN IF ~cached.some THEN "OutOfDate"
       ELSE LET fetched == NetworkPluginUpdatedDate(resp, name)
            IN IF ~fetched.ok THEN "Err"
               ELSE IF cached.v < fetched.v THEN "OutOfDate" ELSE "UpToDate"

\* ------------------------------------------------------------ champions
\* A Champion as far as the cache is concerned: its key and its content.
Champions == [id : Ids, title : Titles]

NoChampion == [id |-> 0, title |-> ""]

\* An element of champion-summary.json: its id, or 0 when it carries no
\* unsigned-integer id field.
SummaryElements == 0..MaxId

RECURSIVE SeqsUpTo(_, _)
SeqsUpTo(S, n) ==
    IF n = 0 THEN {<< >>}
    ELSE LET shorter == SeqsUpTo(S, n - 1)
         IN shorter \cup {Append(q, x) : q \in {r \in shorter : Len(r) = n - 1}, x \in S}

Summaries == SeqsUpTo(SummaryElements, MaxSummary)

\* champion_ids() that leaves out the first element only when it is a
\* placeholder without an id (filter instead of skip(1)).
ChampionIdsSkipsPlaceholder(resp) ==
    IF ~resp.ok THEN [kind |-> "err", ids |-> << >>]
    ELSE IF \E i \in 2..Len(resp.body) : resp.body[i] = 0
         THEN [kind |-> "panic", ids |-> << >>]
         ELSE [kind |-> "ok",
               ids |-> IF resp.body # << >> /\ resp.body[1] # 0 THEN resp.body
                       ELSE [i \in 1..(IF Len(resp.body) = 0 THEN 0 ELSE Len(resp.body) - 1)
                                |-> resp.body[i + 1]]]

\* champion_ids(): "err" when the request or the array decode fails, "panic"
\* when an element after the first has no id (unwrap on None), else the ids
\* of the elements after the first, in array order.
ChampionIds(resp) ==
    IF ~resp.ok THEN [kind |-> "err", ids |-> << >>]
    ELSE IF \E i \in 2..Len(resp.body) : resp.body[i] = 0
         THEN [kind |-> "panic", ids |-> << >>]
         ELSE [kind |-> "ok",
               ids |-> [i \in 1..(IF Len(resp.body) = 0 THEN 0 ELSE Len(resp.body) - 1)
                           |-> resp.body[i + 1]]]

\* champion_parallel(client, id): Ok(champion) when the request succeeds and
\* its body decodes into a Champion, the error otherwise.
ChampionParallel(resp) ==
    IF resp.ok THEN Ok(resp.body) ELSE [ok |-> FALSE, v |-> NoChampion]

\* tokio::spawn of one fetch per id, in the order of the id list.
SpawnAll(ids) == [i \in DOMAIN ids |-> [id |-> ids[i], st |-> "running", champ |-> NoChampion]]

EmptyMap == [k \in {} |-> NoChampion]

\* The map made anew for every champion (HashMap::new inside the loop).
InsertIntoNew(m, c) == [k \in {c.id} |-> c]

\* entry(champ.id).or_insert(champ): the first champion of a key stays.
InsertKeepsFirst(m, c) == [k \in (DOMAIN m) \cup {c.id} |-> IF k \in DOMAIN m THEN m[k] ELSE c]

\* HashMap::insert(champ.id, champ)
Insert(m, c) == [k \in (DOMAIN m) \cup {c.id} |-> IF k = c.id THEN c ELSE m[k]]

\* ---------------------------------------------------------------- state
VARIABLES
    status,           \* CDragon.status
    plugins,          \* CDragon.plugins
    champions,        \* CDragon.champions
    files,            \* the cache directory and its two files
    remotePlugins,    \* what the plugin listing answers at present
    pc,               \* where the running call stands
    caller,           \* who called all_champions(): update() or the user
    pre,              \* the aggregate and the cache as the last update() found them
    summary,          \* the summary array the running all_champions() was answered
    tasks,            \* the JoinHandles of all_champions, in spawn order
    joined,           \* how many of them the join loop has awaited
    acc,              \* the map the join loop is building
    ret               \* what the last call returned

vars == <<status, plugins, champions, files, remotePlugins, pc, caller, pre,
          summary, tasks, joined, acc, ret>>

aggregate == <<status, plugins, champions>>

fanout == <<summary, tasks, joined, acc>>

\* op and result of the last call, the context of its error, and, for a
\* call that failed in the join loop, the handles it dropped and the place
\* in the id list of the fetch whose error it returned.  ret and pre
\* are what the caller holds right after the call: the next call replaces
\* them, and a change of the remote listing ends them.
NoRet == [op |-> "none", name |-> "", result |-> "", context |-> "", dropped |-> << >>,
          error |-> 0]

Returned(op, name, result, context, dropped) ==
    [op |-> op, name |-> name, result |-> result, context |-> context, dropped |-> dropped,
     error |-> IF dropped = << >> THEN 0 ELSE joined + 1]

NoPre == [status |-> "", plugins |-> << >>, champions |-> EmptyMap, files |-> NoFiles]

Snapshot == [status |-> status, plugins |-> plugins, champions |-> champions, files |-> files]

PluginResponses == {Down} \cup {Body(l) : l \in WireListings}

SummaryResponses == {Down} \cup {Body(s) : s \in Summaries}

ChampionResponses == {Down} \cup {Body(c) : c \in Champions}

\* CDragon::new(): nothing fetched yet; the cache nobody has written yet.
New ==
    /\ status = "Uninitialized"
    /\ plugins = << >>
    /\ champions = EmptyMap
    /\ files = NoFiles
    /\ pc = "idle"
    /\ caller = "none"
    /\ pre = NoPre
    /\ summary = << >>
    /\ tasks = << >>
    /\ joined = 0
    /\ acc = EmptyMap
    /\ ret = NoRet

\* status() that stores the listing it fetched in plugins.json when it finds
\* the cache out of date.
StatusRefreshesCache(name) ==
    /\ pc = "idle"
    /\ LET verdict == StatusOf(files, remotePlugins, name)
           fetched == FetchPlugins(remotePlugins)
       IN /\ ret' = Returned("status", name, verdict,
                             IF verdict = "Err"
                             THEN "failed to check when the plugin was last updated"
                             ELSE "", << >>)
          /\ files' = IF verdict = "OutOfDate" /\ fetched.ok
                      THEN Save(files, "plugins", SerializePlugins(fetched.v), "ok").fs
                      ELSE files
    /\ pre' = NoPre
    /\ UNCHANGED <<aggregate, remotePlugins, pc, caller, fanout>>

\* status() that stores its verdict in the status field (&mut self).
StatusStoresVerdict(name) ==
    /\ pc = "idle"
    /\ LET verdict == StatusOf(files, remotePlugins, name)
       IN /\ ret' = Returned("status", name, verdict,
                             IF verdict = "Err"
                             THEN "failed to check when the plugin was last updated"
                             ELSE "", << >>)
          /\ status' = IF verdict = "Err" THEN status ELSE verdict
    /\ pre' = NoPre
    /\ UNCHANGED <<plugins, champions, files, remotePlugins, pc, caller, fanout>>

\* status(plugin_name)
Status(name) ==
    /\ pc = "idle"
    /\ LET verdict == StatusOf(files, remotePlugins, name)
       IN ret' = Returned("status", name, verdict,
                          IF verdict = "Err" THEN "failed to check when the plugin was last updated"
                          ELSE "", << >>)
    /\ pre' = NoPre
    /\ UNCHANGED <<aggregate, files, remotePlugins, pc, caller, fanout>>

\* update() returns Err with the context of the stage that failed.
UpdateFails(context, dropped) ==
    /\ pc' = "idle"
    /\ caller' = "none"
    /\ pre' = IF pc = "idle" THEN Snapshot ELSE pre
    /\ ret' = Returned("update", "", "Err", context, dropped)

\* The plugin stage with self.status = UpToDate set as soon as the plugins
\* are stored.
UpdatePluginsMarksUpToDate(mode) ==
    /\ pc = "idle"
    /\ LET fetched == FetchPlugins(remotePlugins)
       IN IF ~fetched.ok
          THEN /\ UpdateFails("failed to update plugins", << >>)
               /\ UNCHANGED <<aggregate, files>>
          ELSE LET saved == Save(files, "plugins", SerializePlugins(fetched.v), mode)
               IN /\ files' = saved.fs
                  /\ IF ~saved.ok
                     THEN /\ UpdateFails("failed to cache the updated plugins", << >>)
                          /\ UNCHANGED aggregate
                     ELSE /\ plugins' = fetched.v
                          /\ status' = "UpToDate"
                          /\ pc' = "all_champions"
                          /\ caller' = "update"
                          /\ pre' = Snapshot
                          /\ ret' = NoRet
                          /\ UNCHANGED champions
    /\ UNCHANGED <<remotePlugins, fanout>>

\* update(), plugin stage: plugins(), save(&plugins, "plugins.json"),
\* self.plugins = plugins; then all_champions() is called.
UpdatePlugins(mode) ==
    /\ pc = "idle"
    /\ LET fetched == FetchPlugins(remotePlugins)
       IN IF ~fetched.ok
          THEN /\ UpdateFails("failed to update plugins", << >>)
               /\ UNCHANGED <<aggregate, files>>
          ELSE LET saved == Save(files, "plugins", SerializePlugins(fetched.v), mode)
               IN /\ files' = saved.fs
                  /\ IF ~saved.ok
                     THEN /\ UpdateFails("failed to cache the updated plugins", << >>)
                          /\ UNCHANGED aggregate
                     ELSE /\ plugins' = fetched.v
                          /\ pc' = "all_champions"
                          /\ caller' = "update"
                          /\ pre' = Snapshot
                          /\ ret' = NoRet
                          /\ UNCHANGED <<status, champions>>
    /\ UNCHANGED <<remotePlugins, fanout>>

\* all_champions() called on the aggregate by its user.
CallAllChampions ==
    /\ pc = "idle"
    /\ pc' = "all_champions"
    /\ caller' = "user"
    /\ pre' = NoPre
    /\ ret' = NoRet
    /\ UNCHANGED <<aggregate, files, remotePlugins, fanout>>

\* all_champions() returns Err: to the user, or to update(), whose `?`
\* returns it with the context of the entity stage.
AllChampionsFails(dropped) ==
    IF caller = "update"
    THEN UpdateFails("failed to update champions", dropped)
    ELSE /\ pc' = "idle"
         /\ caller' = "none"
         /\ ret' = Returned("all_champions", "", "Err", "", dropped)
         /\ UNCHANGED pre

\* all_champions(), up to the end of the spawn loop: champion_ids() on the
\* summary the remote answers with, then one task per id.
AllChampionsSpawn(resp) ==
    /\ pc = "all_champions"
    /\ LET got == ChampionIds(resp)
       IN CASE got.kind = "err" ->
                 /\ AllChampionsFails(<< >>)
                 /\ UNCHANGED fanout
            [] got.kind = "panic" ->
                 /\ pc' = "panicked"
                 /\ summary' = resp.body
                 /\ UNCHANGED <<caller, pre, ret, tasks, joined, acc>>
            [] OTHER ->
                 /\ summary' = resp.body
                 /\ tasks' = SpawnAll(got.ids)
                 /\ joined' = 0
                 /\ acc' = EmptyMap
                 /\ pc' = "join"
                 /\ UNCHANGED <<caller, pre, ret>>
    /\ UNCHANGED <<aggregate, files, remotePlugins>>

\* One spawned champion_parallel runs to its end, on the answer resp of the
\* endpoint of its id.
TaskCompletes(i, resp) ==
    /\ pc = "join"
    /\ i \in DOMAIN tasks
    /\ tasks[i].st = "running"
    /\ LET r == ChampionParallel(resp)
       IN tasks' = [tasks EXCEPT ![i] = [id |-> tasks[i].id,
                                          st |-> IF r.ok THEN "ok" ELSE "err",
                                          champ |-> r.v]]
    /\ UNCHANGED <<aggregate, files, remotePlugins, pc, caller, pre, summary, joined, acc, ret>>

\* The join loop that passes over a failed fetch (if let Ok(champ) = ...).
JoinSkipsFailed ==
    /\ pc = "join"
    /\ joined < Len(tasks)
    /\ tasks[joined + 1].st # "running"
    /\ acc' = IF tasks[joined + 1].st = "err" THEN acc
              ELSE Insert(acc, tasks[joined + 1].champ)
    /\ joined' = joined + 1
    /\ UNCHANGED <<pc, caller, pre, ret, summary, tasks>>
    /\ UNCHANGED <<aggregate, files, remotePlugins>>

\* The join loop that polls a handle once instead of awaiting it, and goes
\* on when the fetch has not finished.
JoinDoesNotWait ==
    /\ pc = "join"
    /\ joined < Len(tasks)
    /\ IF tasks[joined + 1].st = "err"
       THEN /\ AllChampionsFails(tasks)
            /\ summary' = << >>
            /\ tasks' = << >>
            /\ joined' = 0
            /\ acc' = EmptyMap
       ELSE /\ acc' = IF tasks[joined + 1].st = "ok"
                      THEN Insert(acc, tasks[joined + 1].champ) ELSE acc
            /\ joined' = joined + 1
            /\ UNCHANGED <<pc, caller, pre, ret, summary, tasks>>
    /\ UNCHANGED <<aggregate, files, remotePlugins>>

\* The join that returns as soon as any fetch has failed, with the error of
\* that fetch (try_join_all instead of awaiting the handles in order).
JoinReturnsFirstFailure ==
    /\ pc = "join"
    /\ joined < Len(tasks)
    /\ IF \E k \in DOMAIN tasks : tasks[k].st = "err"
       THEN /\ \E k \in DOMAIN tasks :
                 /\ tasks[k].st = "err"
                 /\ ret' = [Returned(IF caller = "update" THEN "update" ELSE "all_champions",
                                     "", "Err",
                                     IF caller = "update" THEN "failed to update champions"
                                     ELSE "", tasks)
                            EXCEPT !.error = k]
            /\ pc' = "idle"
            /\ caller' = "none"
            /\ summary' = << >>
            /\ tasks' = << >>
            /\ joined' = 0
            /\ acc' = EmptyMap
            /\ UNCHANGED pre
       ELSE /\ tasks[joined + 1].st = "ok"
            /\ acc' = Insert(acc, tasks[joined + 1].champ)
            /\ joined' = joined + 1
            /\ UNCHANGED <<pc, caller, pre, ret, summary, tasks>>
    /\ UNCHANGED <<aggregate, files, remotePlugins>>

\* One turn of the join loop: task.await?? on the next handle, then
\* champions.insert(champ.id, champ).  On an error all_champions() returns
\* at once and the handles are dropped, which detaches the tasks still
\* running.
Join ==
    /\ pc = "join"
    /\ joined < Len(tasks)
    /\ tasks[joined + 1].st # "running"
    /\ IF tasks[joined + 1].st = "err"
       THEN /\ AllChampionsFails(tasks)
            /\ summary' = << >>
            /\ tasks' = << >>
            /\ joined' = 0
            /\ acc' = EmptyMap
       ELSE /\ acc' = Insert(acc, tasks[joined + 1].champ)
            /\ joined' = joined + 1
            /\ UNCHANGED <<pc, caller, pre, ret, summary, tasks>>
    /\ UNCHANGED <<aggregate, files, remotePlugins>>

\* all_champions() returns Ok(acc) to the user.
AllChampionsReturns ==
    /\ pc = "join"
    /\ caller = "user"
    /\ joined = Len(tasks)
    /\ pc' = "idle"
    /\ caller' = "none"
    /\ ret' = Returned("all_champions", "", "Ok", "", << >>)
    /\ summary' = << >>
    /\ tasks' = << >>
    /\ joined' = 0
    /\ acc' = EmptyMap
    /\ UNCHANGED <<aggregate, files, remotePlugins, pre>>

\* update(), entity stage after all_champions() returned Ok(acc):
\* save(&champions, "champion_details.json"), self.champions = champions,
\* self.status = UpToDate.
UpdateChampions(mode) ==
    /\ pc = "join"
    /\ caller = "update"
    /\ joined = Len(tasks)
    /\ LET saved == Save(files, "champions", acc, mode)
       IN /\ files' = saved.fs
          /\ IF ~saved.ok
             THEN /\ UpdateFails("failed to cache the updated champions", << >>)
                  /\ UNCHANGED aggregate
             ELSE /\ champions' = acc
                  /\ status' = "UpToDate"
                  /\ pc' = "idle"
                  /\ caller' = "none"
                  /\ ret' = Returned("update", "", "Ok", "", << >>)
                  /\ UNCHANGED pre
                  /\ UNCHANGED plugins
    /\ summary' = << >>
    /\ tasks' = << >>
    /\ joined' = 0
    /\ acc' = EmptyMap
    /\ UNCHANGED remotePlugins

\* The remote publishes another listing, or its listing endpoint goes down.
\* update() reads the listing in its first step only, so a change during a
\* running update() is the same change right after it.
PublishPlugins ==
    /\ pc = "idle"
    /\ remotePlugins' \in PluginResponses \ {remotePlugins}
    /\ pre' = NoPre
    /\ ret' = NoRet
    /\ UNCHANGED <<aggregate, files, pc, caller, fanout>>

\* ----------------------------------------------------------- properties
\* What update() left behind when it returned an error.
UpdateFailed == ret.op = "update" /\ ret.result = "Err"

\* C1: after every update() that fails, at whatever stage, the in-memory
\* plugin list, the in-memory entity map, the stored status and the contents
\* of plugins.json and champion_details.json are what they were before the
\* call.
C1_FailedUpdateChangesNothing ==
    UpdateFailed =>
        /\ plugins = pre.plugins
        /\ champions = pre.champions
        /\ status = pre.status
        /\ files.plugins = pre.files.plugins
        /\ files.champions = pre.files.champions

\* The step in which update() stores the entities and returns Ok: the plugin
\* stage has stored its list, every spawned fetch has been joined.
FullUpdateCompletes ==
    /\ pc = "join" /\ caller = "update" /\ joined = Len(tasks)
    /\ \A i \in DOMAIN tasks : tasks[i].st = "ok"
    /\ files.plugins = Json(SerializePlugins(plugins))
    /\ files'.champions = Json(champions')
    /\ ret'.op = "update" /\ ret'.result = "Ok"

\* C2: the stored status becomes UpToDate only in the step that completes a
\* full update() (plugin stage and entity stage), and once it is not
\* Uninitialized no step makes it Uninitialized again.
C2_UpToDateOnlyByFullUpdate ==
    [][/\ (status' = "UpToDate" /\ status # "UpToDate") => FullUpdateCompletes
       /\ status # "Uninitialized" => status' # "Uninitialized"]_vars

\* A failed update() after a successful one: the status is still UpToDate.
C2_Witness == status = "UpToDate" /\ UpdateFailed

\* The names of the plugins plugins.json lists, as load_obj reads them.
CachedNames == {ParseName(files.plugins.body[i].name) : i \in DOMAIN files.plugins.body}

\* The listing the remote answers with can be fetched and decoded.
RemoteReadable ==
    /\ remotePlugins.ok
    /\ \A i \in DOMAIN remotePlugins.body : ParseTimeOk(remotePlugins.body[i].mtime)

RemoteNames == {ParseName(remotePlugins.body[i].name) : i \in DOMAIN remotePlugins.body}

\* C3: status(name) returns OutOfDate when plugins.json does not exist, or
\* when the cached list has no plugin of that name, whatever the remote
\* answers.
C3_ColdStartIsOutOfDate ==
    (/\ ret.op = "status"
     /\ \/ files.plugins.kind = "absent"
        \/ files.plugins.kind = "json" /\ ret.name \notin CachedNames)
    => ret.result = "OutOfDate"

\* status(name) on a cache that lists other plugins only, while the remote
\* does list the plugin.
C3_Witness ==
    /\ ret.op = "status" /\ ret.result = "OutOfDate"
    /\ files.plugins.kind = "json" /\ CachedNames # {} /\ ret.name \notin CachedNames
    /\ RemoteReadable /\ ret.name \in RemoteNames

\* The timestamps plugins.json and the remote listing give a plugin.
CachedTimes(n) ==
    {ParseTime(files.plugins.body[i].mtime) :
        i \in {j \in DOMAIN files.plugins.body : ParseName(files.plugins.body[j].name) = n}}

RemoteTimes(n) ==
    {ParseTime(remotePlugins.body[i].mtime) :
        i \in {j \in DOMAIN remotePlugins.body : ParseName(remotePlugins.body[j].name) = n}}

CachedHas(n) == files.plugins.kind = "json" /\ n \in CachedNames

\* C4: with the plugin in the cache at T1 and in the remote listing at T2,
\* status(name) returns OutOfDate if T1 < T2 and UpToDate otherwise, which
\* is to say OutOfDate exactly when the remote plugin is updated_since(T1).
C4_OutOfDateIffCachedOlder ==
    (ret.op = "status" /\ CachedHas(ret.name) /\ RemoteReadable /\ ret.name \in RemoteNames)
    => \A t1 \in CachedTimes(ret.name), t2 \in RemoteTimes(ret.name) :
          /\ ret.result = IF t1 < t2 THEN "OutOfDate" ELSE "UpToDate"
          /\ (ret.result = "OutOfDate") = UpdatedSince(t2, t1)

\* The cache is newer than the remote listing, and status() says UpToDate.
C4_Witness ==
    /\ ret.op = "status" /\ ret.result = "UpToDate"
    /\ CachedHas(ret.name) /\ RemoteReadable
    /\ \E t1 \in CachedTimes(ret.name), t2 \in RemoteTimes(ret.name) : t1 > t2

\* C5: with the plugin in the cache, status(name) returns an error when the
\* remote listing cannot be fetched or does not list the plugin.
C5_RemoteFailureIsAnError ==
    (ret.op = "status" /\ CachedHas(ret.name)
       /\ (~RemoteReadable \/ ret.name \notin RemoteNames))
    => ret.result = "Err"

\* The remote answers, with a listing that lacks the plugin the cache has.
C5_Witness ==
    /\ ret.op = "status" /\ ret.result = "Err"
    /\ CachedHas(ret.name) /\ RemoteReadable /\ ret.name \notin RemoteNames

\* C6: a step in which status(name) returns changes neither the aggregate nor
\* a cache file, and when the call before it was status() of the same name,
\* with the cache and the remote as they were, it returns the same result.
C6_StatusIsPureAndIdempotent ==
    [][ret'.op = "status" =>
          /\ UNCHANGED <<status, plugins, champions, files>>
          /\ (ret.op = "status" /\ ret.name = ret'.name) => ret'.result = ret.result]_vars

\* status() has found the cache older than the remote, and left it so.
C6_Witness ==
    /\ ret.op = "status" /\ ret.result = "OutOfDate" /\ CachedHas(ret.name)
    /\ \E t1 \in CachedTimes(ret.name), t2 \in RemoteTimes(ret.name) : t1 < t2

\* all_champions() is about to return Ok(acc): the join loop has ended.
ReturnsMap == pc = "join" /\ joined = Len(tasks)

IdsOf(ts) == {ts[i].id : i \in DOMAIN ts}

FetchedIdsOf(ts) == {ts[i].champ.id : i \in DOMAIN ts}

\* The id list has no id twice, and every record carries the id it was
\* fetched under.
CanonicalFetch(ts) ==
    /\ \A i, j \in DOMAIN ts : ts[i].id = ts[j].id => i = j
    /\ \A i \in DOMAIN ts : ts[i].champ.id = ts[i].id

\* C7 as stated: when all k fetches succeed the map has exactly k keys, the
\* set of the ids fetched.
C7_KeysAreTheInputIds ==
    ReturnsMap => /\ Cardinality(DOMAIN acc) = Len(tasks)
                  /\ DOMAIN acc = IdsOf(tasks)

\* C7, amended: when all k fetches succeed the keys of the map are the ids
\* the fetched records carry, each record under its own id; they are k keys,
\* the set of the ids fetched, when the id list names no id twice and every
\* record carries the id it was fetched under.
C7_KeysAreTheFetchedIds ==
    ReturnsMap =>
        /\ DOMAIN acc = FetchedIdsOf(tasks)
        /\ \A k \in DOMAIN acc : acc[k].id = k
        /\ CanonicalFetch(tasks) => /\ Cardinality(DOMAIN acc) = Len(tasks)
                                    /\ DOMAIN acc = IdsOf(tasks)

\* Two different ids fetched, each record under its id, and the map is due.
C7_Witness ==
    /\ ReturnsMap /\ Len(tasks) = 2 /\ CanonicalFetch(tasks)
    /\ Cardinality(DOMAIN acc) = 2

\* C8: a fetch that failed leaves all_champions() no map to return, and the
\* update() it fails stores no fetched entity: the in-memory map and
\* champion_details.json stay as update() found them.
C8_OneFailureFailsAll ==
    /\ ReturnsMap => \A i \in DOMAIN tasks : tasks[i].st = "ok"
    /\ (ret.op = "update" /\ \E i \in DOMAIN ret.dropped : ret.dropped[i].st = "err")
       => /\ ret.result = "Err"
          /\ champions = pre.champions
          /\ files.champions = pre.files.champions

\* update() has failed on two fetches of which exactly one failed, and the
\* entities of an earlier update() are still there.
C8_Witness ==
    /\ UpdateFailed /\ Len(ret.dropped) = 2
    /\ Cardinality({i \in DOMAIN ret.dropped : ret.dropped[i].st = "err"}) = 1
    /\ Cardinality({i \in DOMAIN ret.dropped : ret.dropped[i].st = "ok"}) = 1
    /\ champions # EmptyMap

\* The last of the first n tasks whose record has key k.
LastWith(k, n) ==
    CHOOSE i \in 1..n : /\ tasks[i].champ.id = k
                        /\ \A j \in 1..n : tasks[j].champ.id = k => j <= i

\* The map the outcomes of the first n tasks determine: every key of a
\* record, with the record that comes last in the id list.
MapOfOutcomes(n) ==
    [k \in {tasks[i].champ.id : i \in 1..n} |-> tasks[LastWith(k, n)].champ]

\* C9: the map all_champions() builds is the one the id list and the
\* outcomes of the fetches determine, in whatever order the fetches ended.
C9_MapIsDeterminedByOutcomes ==
    pc = "join" => acc = MapOfOutcomes(joined)

\* Two fetches have brought different records of one key, and the map is due.
C9_Witness ==
    /\ ReturnsMap /\ Len(tasks) = 2
    /\ tasks[1].champ.id = tasks[2].champ.id /\ tasks[1].champ # tasks[2].champ

\* C10 as stated: all_champions() has never returned, a map or an error,
\* while a fetch it spawned is in flight.
C10_ReturnsAfterAllFetches ==
    /\ ReturnsMap => \A i \in DOMAIN tasks : tasks[i].st # "running"
    /\ \A i \in DOMAIN ret.dropped : ret.dropped[i].st # "running"

\* C10, amended: all_champions() returns a map only after every fetch it
\* spawned has ended; it returns an error as soon as the join loop, which
\* goes through the handles in the order of the id list, meets a failed
\* fetch, with every fetch before that one ended.
C10_MapAfterAllFetches ==
    /\ pc = "join" => \A i \in 1..joined : tasks[i].st = "ok"
    /\ ReturnsMap => \A i \in DOMAIN tasks : tasks[i].st # "running"
    /\ (ret.op = "all_champions" /\ ret.dropped # << >>)
       => /\ ret.result = "Err"
          /\ \E j \in DOMAIN ret.dropped :
                /\ ret.dropped[j].st = "err"
                /\ \A i \in 1..(j - 1) : ret.dropped[i].st = "ok"

\* The map of two fetches is due.
C10_Witness ==
    /\ ReturnsMap /\ Len(tasks) = 2
    /\ \A i \in DOMAIN tasks : tasks[i].st = "ok"

\* update() is about to store the plugin list: the listing was fetched and
\* decoded.
PluginStageFetched == pc = "idle" /\ RemoteReadable

\* update() is about to store the entities: the id list was fetched, one
\* fetch was spawned per id of it, and every one of them was joined with a
\* record.
EntityStageFetched ==
    /\ pc = "join" /\ caller = "update" /\ joined = Len(tasks)
    /\ Len(tasks) = IF summary = << >> THEN 0 ELSE Len(summary) - 1
    /\ \A i \in DOMAIN tasks : tasks[i].id = summary[i + 1] /\ tasks[i].st = "ok"

\* C11 as stated: a step changes plugins.json only when the plugin list was
\* fetched and decoded, and champion_details.json only when the id list and
\* every entity fetch succeeded, and what such a step leaves in the file is
\* the complete data of that stage, also when update() then fails.
C11_FilesHoldOnlyCompleteData ==
    [][/\ files'.plugins # files.plugins
          => /\ PluginStageFetched
             /\ files'.plugins = Json(SerializePlugins(FetchPlugins(remotePlugins).v))
       /\ files'.champions # files.champions
          => /\ EntityStageFetched
             /\ files'.champions = Json(MapOfOutcomes(Len(tasks)))]_vars

\* How far the code goes: a step changes a file only after the stage of
\* that file has fully succeeded, and leaves in it the complete data of that
\* stage or, when the write itself fails and update() returns the error of
\* save(), a truncated file.
FilesChangeAfterTheirStage ==
    [][/\ files'.plugins # files.plugins
          => /\ PluginStageFetched
             /\ \/ files'.plugins = Json(SerializePlugins(FetchPlugins(remotePlugins).v))
                \/ /\ files'.plugins = Partial
                   /\ ret'.context = "failed to cache the updated plugins"
       /\ files'.champions # files.champions
          => /\ EntityStageFetched
             /\ \/ files'.champions = Json(MapOfOutcomes(Len(tasks)))
                \/ /\ files'.champions = Partial
                   /\ ret'.context = "failed to cache the updated champions"]_vars

\* C12: the step in which update() returns Ok leaves the cache directory
\* in place, plugins.json holding the listing this call fetched,
\* champion_details.json holding the records this call fetched, the two
\* in-memory collections equal to them and the stored status UpToDate,
\* whatever the directory, the files and the collections held before: on an
\* absent cache directory as on the cache of an earlier update().
C12_UpdateStoresWhatItFetched ==
    [][(pc = "join" /\ ret'.op = "update" /\ ret'.result = "Ok")
       => /\ files'.dir
          /\ RemoteReadable
          /\ plugins' = FetchPlugins(remotePlugins).v
          /\ files'.plugins = Json(SerializePlugins(plugins'))
          /\ \A i \in DOMAIN tasks : tasks[i].st = "ok"
          /\ champions' = MapOfOutcomes(Len(tasks))
          /\ files'.champions = Json(champions')
          /\ status' = "UpToDate"]_vars

\* A second update() succeeded on the cache of a first one and replaced the
\* files and the collections, which all held other data.
C12_Witness ==
    /\ ret.op = "update" /\ ret.result = "Ok"
    /\ pre.status = "UpToDate"
    /\ pre.files.plugins.kind = "json" /\ pre.files.plugins # files.plugins
    /\ pre.files.champions.kind = "json" /\ pre.files.champions # files.champions
    /\ pre.plugins # plugins /\ pre.champions # champions
    /\ plugins # << >> /\ champions # EmptyMap

\* C13: the ids champion_ids() returns, one spawned fetch each, are the ids
\* of the elements of the summary array after the first, in array order,
\* whatever the first element is; an array of no or one element gives no id;
\* and the first element is never what makes the call fail.
C13_IdsAreAllButTheFirst ==
    /\ pc = "join"
       => /\ Len(tasks) = IF summary = << >> THEN 0 ELSE Len(summary) - 1
          /\ \A i \in DOMAIN tasks : tasks[i].id = summary[i + 1]
    /\ pc = "panicked" => \E i \in 2..Len(summary) : summary[i] = 0

\* A summary of three elements whose first carries a valid id: the ids of
\* the other two were returned.
C13_Witness ==
    /\ pc = "join" /\ Len(summary) = 3 /\ summary[1] # 0
    /\ Len(tasks) = 2 /\ tasks[1].id # tasks[2].id

\* C14: when an element of the summary array after the first has no
\* unsigned-integer id, champion_ids() returns an error to its caller: the
\* call neither aborts nor goes on with a shortened id list.
C14_MissingIdIsAnError ==
    (\E i \in 2..Len(summary) : summary[i] = 0) => pc \notin {"panicked", "join"}

\* C15: after a save() that failed, a load of the file does not succeed
\* with anything but what the file held before that save, the argument of
\* an earlier save() that completed: what a write that failed partway left
\* is not accepted.
C15_FailedWriteIsNotLoadable ==
    /\ (UpdateFailed /\ ret.context = "failed to cache the updated plugins")
       => (LoadPlugins(files).ok => files.plugins = pre.files.plugins)
    /\ (UpdateFailed /\ ret.context = "failed to cache the updated champions")
       => (files.champions.kind = "json" => files.champions = pre.files.champions)

\* The write of plugins.json failed partway over a list an earlier save()
\* had stored, and the file is not loadable.
C15_Witness ==
    /\ UpdateFailed /\ ret.context = "failed to cache the updated plugins"
    /\ pre.files.plugins.kind = "json" /\ pre.files.plugins.body # << >>
    /\ files.plugins = Partial
    /\ ~LoadPlugins(files).ok

\* C16: the error all_champions() returns is the error of the fetch at the
\* lowest place of the id list among the fetches that failed: every fetch
\* before it in the list succeeded, whatever the fetches after it did and
\* whenever they did it; and the call returns no map, nor any record of the
\* fetches that succeeded.
C16_ErrorOfLowestFailedPlace ==
    /\ (ret.op = "all_champions" /\ ret.result = "Err" /\ ret.dropped # << >>)
       => ret.error # 0
    /\ ret.error # 0
       => /\ ret.result = "Err"
          /\ ret.error \in DOMAIN ret.dropped
          /\ ret.dropped[ret.error].st = "err"
          /\ \A i \in 1..(ret.error - 1) : ret.dropped[i].st = "ok"
          /\ acc = EmptyMap

\* Both of two fetches failed before the join looked at either of them: the
\* error is that of the first of the list.
C16_Witness ==
    /\ ret.op = "all_champions" /\ ret.error = 1
    /\ Len(ret.dropped) = 2
    /\ ret.dropped[1].st = "err" /\ ret.dropped[2].st = "err"

\* C17: whenever status(rcp-be-lol-game-data) returns UpToDate,
\* champion_details.json exists and was written after the plugins.json the
\* verdict was taken from, by the update() that wrote that file or a later
\* one.
C17_UpToDateMeansEntitiesCurrent ==
    (ret.op = "status" /\ ret.name = "RcpBeLolGameData" /\ ret.result = "UpToDate")
    => /\ files.champions.kind # "absent"
       /\ ~files.older

\* C18: the stored status is Uninitialized or UpToDate and never OutOfDate;
\* the only step that changes it takes it from Uninitialized to UpToDate
\* and is the return of a successful update(); status(name) leaves it alone
\* whatever verdict it returns, and once UpToDate it stays UpToDate through
\* every later status() and update(), failed or not.
C18_StoredStatusOnlyBecomesUpToDate ==
    /\ [](status \in {"Uninitialized", "UpToDate"})
    /\ [][/\ status' # status
             => /\ status = "Uninitialized" /\ status' = "UpToDate"
                /\ ret'.op = "update" /\ ret'.result = "Ok"
          /\ ret'.op = "status" => status' = status
          /\ status = "UpToDate" => status' = "UpToDate"]_vars

\* status() returned OutOfDate while the stored status was and stays
\* UpToDate.
C18_Witness ==
    /\ status = "UpToDate"
    /\ ret.op = "status" /\ ret.result = "OutOfDate"

\* C19: while plugins.json exists and cannot be decoded into a plugin list,
\* status(name) returns OutOfDate as it does on an absent cache, for every
\* name and whatever the remote would answer: also when the listing cannot
\* be fetched, which a request would have turned into an error.
C19_UnreadableCacheIsOutOfDate ==
    (ret.op = "status" /\ files.plugins.kind = "partial")
    => /\ ~LoadPlugins(files).ok
       /\ ret.result = "OutOfDate"
       /\ ret.result = StatusOf(NoFiles, remotePlugins, ret.name)

\* status() returned OutOfDate on a truncated plugins.json while the
\* listing could not be fetched.
C19_Witness ==
    /\ ret.op = "status" /\ ret.name = "RcpBeLolGameData"
    /\ files.plugins.kind = "partial"
    /\ ~remotePlugins.ok
    /\ ret.result = "OutOfDate"

\* C20: status(name) called right after update() returned Ok, the remote
\* listing being what update() fetched, returns UpToDate for every plugin
\* name of the fetched list: what was written to plugins.json reads back as
\* the names and the timestamps of the listing.
C20_UpToDateAfterUpdate ==
    [][(/\ ret.op = "update" /\ ret.result = "Ok"
        /\ ret'.op = "status"
        /\ \E i \in DOMAIN plugins : plugins[i].name = ret'.name)
       => ret'.result = "UpToDate"]_vars

\* status() returned UpToDate for the name an unlisted plugin is stored
\* under, on the cache of a successful update() of a listing stamped later
\* than the epoch.
C20_Witness ==
    /\ ret.op = "status" /\ ret.name = "PluginManifest" /\ ret.result = "UpToDate"
    /\ status = "UpToDate"
    /\ files.plugins = Json(SerializePlugins(plugins))
    /\ files.champions = Json(champions) /\ ~files.older
    /\ \E i \in DOMAIN plugins : plugins[i].name = "PluginManifest" /\ plugins[i].mtime > 0

\* ------------------------------------------------------- specifications
\* The aggregate in use: status() and update() against a listing that
\* changes freely, while the champion endpoints answer with one of a few
\* bodies: a summary of no, one or two champions or one with a broken
\* element, and, from the endpoint of an id, the record of that id or no
\* answer.
FewSummaries == {Down, Body(<<0>>), Body(<<0, 1>>), Body(<<0, 1, 2>>), Body(<<0, 0>>)}

FewChampions == {Down, Body([id |-> 1, title |-> "a"]), Body([id |-> 2, title |-> "b"])}

Init == New /\ remotePlugins = Body(<< >>)

Next ==
    \/ \E name \in PluginNames : Status(name)
    \/ \E mode \in SaveModes : UpdatePlugins(mode)
    \/ \E resp \in FewSummaries : AllChampionsSpawn(resp)
    \/ \E i \in 1..MaxSummary, resp \in FewChampions :
          /\ resp.ok => (i \in DOMAIN tasks /\ resp.body.id = tasks[i].id)
          /\ TaskCompletes(i, resp)
    \/ Join
    \/ \E mode \in SaveModes : UpdateChampions(mode)
    \/ PublishPlugins

Spec == Init /\ [][Next]_vars

\* The fan-out/fan-in on its own: all_champions() called by the user, the
\* champion endpoints answering freely.
InitFetch == New /\ remotePlugins = Body(<< >>)

NextFetch ==
    \/ CallAllChampions
    \/ \E resp \in SummaryResponses : AllChampionsSpawn(resp)
    \/ \E i \in 1..MaxSummary, resp \in ChampionResponses : TaskCompletes(i, resp)
    \/ Join
    \/ AllChampionsReturns

SpecFetch == InitFetch /\ [][NextFetch]_vars

====
